---- MODULE Spec2Model ----
(***************************************************************************)
(* Model of desktop-listener/main.py: the VideoServer frame-streaming      *)
(* service (accept loop, per-connection receive loop, capacity-1 hand-off  *)
(* queue, control channel) together with the two ViewerApp callbacks that  *)
(* share its state (_poll_frames / _display_frame).                        *)
(*                                                                         *)
(* Two threads of control: the server thread (spc) running _run_server and *)
(* _handle_client, and the GUI thread (gpc) calling start, stop,           *)
(* send_control_command and _poll_frames.  A step of a thread holds at     *)
(* most one access to state the other thread reads or writes, so the       *)
(* threads interleave between statements.  The producer (remote peer), the *)
(* clock and the operating system's verdict on bind are the environment.   *)
(***************************************************************************)
EXTENDS Integers, Sequences, FiniteSets, TLC

\* ------------------------------------------------------------------ bounds
\* What the environment does in one run: connections made, protocol units
\* sent, stop() and send_control_command() calls, seconds passed, all counted
\* together.
MaxEvents == 3
\* Seconds that pass in one run when the clock runs free of that budget.
MaxTime == 3

\* ------------------------------------------------------- program constants
QueueTwoSlots == 1 + 1                   \* a hand-off queue built with maxsize=2
QUEUE_MAXSIZE == 1                       \* queue.Queue(maxsize=1)
MAX_FRAME_LENGTH == 5 * 1024 * 1024      \* frame_length > 5 * 1024 * 1024
HEADER_SIZE == 4                         \* self._recvall(client_socket, 4)
NEWLINE == 10                            \* b'\n'
STALE_AFTER == 2                         \* `elapsed < 2.0` of _refresh_stats

None == 0            \* Python None for the socket handles (socket ids are 1..)

\* ------------------------------------------------------------ pure helpers
AllAvailable(a, b) == b
Min(a, b) == IF a < b THEN a ELSE b

\* struct.pack('>I', n): the producer's 4-byte big-endian header.
PackHeader(n) ==
    << (n \div 16777216) % 256, (n \div 65536) % 256, (n \div 256) % 256, n % 256 >>

UnpackLittleEndian(h) == h[4] * 16777216 + h[3] * 65536 + h[2] * 256 + h[1]
\* struct.unpack('>I', header)
UnpackHeader(h) == h[1] * 16777216 + h[2] * 65536 + h[3] * 256 + h[4]

ValidLengthNoUpperBound(n) == n > 0
\* the negation of `frame_length <= 0 or frame_length > 5 * 1024 * 1024`
ValidLength(n) == ~(n <= 0 \/ n > MAX_FRAME_LENGTH)

\* str.encode('utf-8') for code points below 0x800
RECURSIVE EncodeUtf8(_)
EncodeUtf8(cps) ==
    IF cps = << >> THEN << >>
    ELSE LET c == Head(cps)
             b == IF c < 128 THEN << c >>
                  ELSE << 192 + (c \div 64), 128 + (c % 64) >>
         IN  b \o EncodeUtf8(Tail(cps))

CommandBytesNoNewline(cmd) == EncodeUtf8(cmd)
\* command.encode('utf-8') + b'\n'
CommandBytes(cmd) == EncodeUtf8(cmd) \o << NEWLINE >>

\* ----------------------------------------------------- the producer's menu
Payloads == { << 7 >>, << 8, 9 >> }
Commands == { << 90, 233 >> }             \* "Z" then e-acute (two UTF-8 bytes)
OVERSIZED == MAX_FRAME_LENGTH + 1

FrameUnit(p) == [kind |-> "frame", bytes |-> PackHeader(Len(p)) \o p]
ZeroUnit     == [kind |-> "zero",  bytes |-> PackHeader(0)]
\* an out-of-range header followed by the first bytes of its payload, which
\* here happen to look like a one-byte frame
OverUnit     == [kind |-> "over",  bytes |-> PackHeader(OVERSIZED) \o PackHeader(1) \o << 7 >>]
TruncUnits   == { [kind |-> "trunc", bytes |-> SubSeq(PackHeader(2) \o << 8, 9 >>, 1, n)] : n \in {2, 5} }
Units == { FrameUnit(p) : p \in Payloads } \cup { ZeroUnit, OverUnit } \cup TruncUnits

RECURSIVE Flatten(_)
Flatten(us) == IF us = << >> THEN << >> ELSE Head(us).bytes \o Flatten(Tail(us))


\* ------------------------------------------------------------------- state
VARIABLES
    \* VideoServer fields
    should_run,            \* self._should_run (threading.Event)
    client_socket,         \* self._client_socket: None or a socket id
    client_output_stream,  \* self._client_output_stream: None or a socket id
    frame_queue,           \* self.frame_queue: sequence of (frame_data, timestamp)
    stats,                 \* FrameStats: fps (num/den), latency_ms, last_updated
    \* the server thread: _run_server / _handle_client / _push_frame / _recvall
    spc,                   \* where the server thread is ("none": never started)
    listening,             \* the listening socket is bound and open
    data,                  \* _recvall's bytearray
    need,                  \* _recvall's length argument
    timestamp,             \* `now` of the frame being pushed
    frame_count,           \* _handle_client's frame_count
    window_start,          \* _handle_client's window_start
    \* the GUI thread
    gpc,                   \* where the GUI thread is
    command,               \* the command of the send_control_command in progress
    \* sockets and the producer
    conn,                  \* id of the most recently accepted socket (0: none yet)
    sock_open,             \* that socket is still open on the service's side
    peer,                  \* its producer: "open", "closed" (FIN sent) or "reset"
    units,                 \* the protocol units the producer has sent on it
    rpos,                  \* bytes of them the service has read
    sent,                  \* the sendall calls of send_control_command, in order:
                           \* [sock, bytes, ok]
    events,                \* environment events so far
    now,                   \* time.time(), in seconds
    \* history (read by no action's guard)
    push_log,              \* payloads passed to _push_frame on this connection
    npush,                 \* number of _push_frame calls so far: the newest frame's id
    push_old,              \* id of the frame in the slot when the push was called
    taken_id,              \* id of the last frame _poll_frames obtained
    rej,                   \* last rejected header: [at |-> rpos after it, len |-> declared]
    hdr_start,             \* rpos at which the latest header read began
    push_start,            \* rpos at which the latest pushed payload began
    started,               \* start() has returned and stop() was not called since
    start_raised,          \* that start() raised
    bind_error,            \* bind/listen failed in the thread that start() spawned
    send_raised,           \* send_control_command raised to its caller
    put_dropped,           \* a put_nowait hit queue.Full
    get_missed,            \* the latest push's get_nowait hit queue.Empty
    pushed,                \* the payloads passed to _push_frame since construction,
                           \* in order: pushed[k] is the frame with id k
    taken,                 \* the frames _poll_frames has obtained, in order: [id, data]
    after_stop,            \* put_nowait calls of _push_frame since a stop() returned
                           \* with no start() after it (-1: no such stop())
    end_reason,            \* why the latest connection's handling ended
    exit_reason,           \* why the latest accept loop ended
    threads,               \* number of live threads running _run_server
    stop_raised,           \* a stop() raised to its caller
    stop_done,             \* stop() calls that have returned (counted up to 2)
    serving,               \* sockets that a running _handle_client is serving
    cmd_dropped,           \* a send_control_command found no handle and wrote nothing
    display,               \* fps_var, latency_var, status_var as _refresh_stats
                           \* last set them
    shown_active,          \* a _refresh_stats has reported "streaming active"
    ts_log,                \* receive times of the frames pushed on this connection
    call_start,            \* rpos when the current (or latest) _recvall was called
    nchunks,               \* recv calls of that _recvall that returned data
    win0,                  \* window_start and stats.fps when this connection's
                           \* receive loop began ([start |-> -1, ...]: not begun)
    poll_raised,           \* a _poll_frames raised to the event loop
    poll_result            \* what the last _poll_frames since the latest call of
                           \* _push_frame got: "none" (no poll), "empty", "frame"

srvFields  == << should_run, client_socket, client_output_stream >>
queueVars  == << frame_queue, stats >>
loopLocals == << data, need, timestamp, frame_count, window_start >>
guiLocals  == << gpc, command >>
sockVars   == << conn, sock_open, peer, units, rpos >>
pushHist   == << push_log, npush, push_old, push_start >>
frameHist  == << rej, hdr_start >>
callHist   == << started, start_raised, send_raised >>
exitHist   == << bind_error, end_reason, exit_reason >>
vars == << srvFields, queueVars, spc, listening, loopLocals, guiLocals, sockVars,
           sent, events, now, pushHist, taken_id, frameHist, callHist, put_dropped, exitHist,
           threads, stop_raised, stop_done, serving, cmd_dropped, poll_raised,
           poll_result, display, shown_active, ts_log, win0, call_start, nchunks,
           get_missed, pushed, taken, after_stop >>

\* The bytes the producer has sent and the service has not yet read.
Wire == LET all == Flatten(units) IN SubSeq(all, rpos + 1, Len(all))

ThreadAliveNever == FALSE
\* `self._server_thread and self._server_thread.is_alive()`
ThreadAlive == spc \notin {"none", "exited"}

NoRej == [at |-> 0, len |-> 0]
NoWindow == [start |-> 0 - 1, fps |-> << 0, 1 >>]

\* "FPS: --" and "Latency: --ms"
IdleFps == << 0, 0 >>
IdleLatency == 0 - 1

Init ==
    /\ should_run = FALSE
    /\ client_socket = None
    /\ client_output_stream = None
    /\ frame_queue = << >>
    /\ stats = [fps |-> << 0, 1 >>, latency_ms |-> 0, last_updated |-> 0]
    /\ spc = "none"
    /\ listening = FALSE
    /\ data = << >>
    /\ need = 0
    /\ timestamp = 0
    /\ frame_count = 0
    /\ window_start = 0
    /\ gpc = "idle"
    /\ command = << >>
    /\ conn = 0
    /\ sock_open = FALSE
    /\ peer = "open"
    /\ units = << >>
    /\ rpos = 0
    /\ sent = << >>
    /\ events = 0
    /\ now = 0
    /\ push_log = << >>
    /\ npush = 0
    /\ push_old = 0
    /\ taken_id = 0
    /\ rej = NoRej
    /\ hdr_start = 0
    /\ push_start = 0
    /\ started = FALSE
    /\ start_raised = FALSE
    /\ bind_error = FALSE
    /\ send_raised = FALSE
    /\ put_dropped = FALSE
    /\ get_missed = FALSE
    /\ pushed = << >>
    /\ taken = << >>
    /\ after_stop = 0 - 1
    /\ end_reason = "none"
    /\ exit_reason = "none"
    /\ threads = 0
    /\ stop_raised = FALSE
    /\ stop_done = 0
    /\ serving = {}
    /\ cmd_dropped = FALSE
    /\ poll_raised = FALSE
    /\ display = [status |-> "init", fps |-> IdleFps, latency |-> IdleLatency]
    /\ shown_active = FALSE
    /\ ts_log = << >>
    /\ win0 = NoWindow
    /\ call_start = 0
    /\ nchunks = 0
    /\ poll_result = "none"


\* --------------------------------------------------------- queue.Queue ops
QueueNeverFull(q) == FALSE
\* Queue.full(): 0 < maxsize <= qsize
QueueFull(q) == Len(q) >= QUEUE_MAXSIZE

GetNowaitKeeps(q) == q
\* Queue.get_nowait() as _push_frame uses it: queue.Empty is swallowed
GetNowaitOrPass(q) == IF q = << >> THEN q ELSE Tail(q)

\* Queue.put_nowait() as _push_frame uses it: queue.Full is swallowed
PutNowaitOrPass(q, item) == IF QueueFull(q) THEN q ELSE Append(q, item)

LoopConditionTrue == TRUE
\* `while self._should_run.is_set()` of the accept loop and the receive loop
LoopCondition == should_run

OnlyOSErrorCaught(e) == e = "OSError"
\* `except Exception` of send_control_command
ExceptionCaught(e) == e \in {"OSError", "AttributeError", "UnicodeEncodeError"}

\* ------------------------------------------------------- the server thread
\* _run_server: socket(), bind(), listen(); a failure raises in the thread.
RunServerBind ==
    /\ spc = "bind"
    /\ \E ok \in BOOLEAN :
         IF ok
         THEN /\ spc' = "loop"
              /\ listening' = TRUE
              /\ UNCHANGED << exitHist, threads >>
         ELSE /\ spc' = "exited"
              /\ listening' = FALSE
              /\ bind_error' = TRUE
              /\ exit_reason' = "bind"
              /\ threads' = threads - 1
              /\ UNCHANGED end_reason
    /\ UNCHANGED << events, srvFields, queueVars, loopLocals, guiLocals, sockVars, sent, now,
                    pushHist, taken_id, frameHist, callHist, put_dropped >>
    /\ UNCHANGED << stop_raised, stop_done, serving, cmd_dropped, poll_raised, poll_result, display, shown_active, ts_log, win0, call_start, nchunks, get_missed, pushed, taken, after_stop >>

\* `while self._should_run.is_set():` of _run_server; leaving the loop leaves
\* the `with` block, which closes the listening socket, and the thread ends.
AcceptLoopCheck ==
    /\ spc = "loop"
    /\ IF LoopCondition
       THEN /\ spc' = "accept"
            /\ UNCHANGED << listening, exit_reason, threads >>
       ELSE /\ spc' = "exited"
            /\ listening' = FALSE
            /\ exit_reason' = "flag"
            /\ threads' = threads - 1
    /\ UNCHANGED << events, srvFields, queueVars, loopLocals, guiLocals, sockVars, sent, now,
                    pushHist, taken_id, frameHist, callHist, put_dropped,
                    bind_error, end_reason >>
    /\ UNCHANGED << stop_raised, stop_done, serving, cmd_dropped, poll_raised, poll_result, display, shown_active, ts_log, win0, call_start, nchunks, get_missed, pushed, taken, after_stop >>

\* an accept loop that takes the next connection without waiting for the
\* handling of the current one to return
AcceptWhileServing ==
    /\ spc \in {"accept", "hloop"}
    /\ events < MaxEvents
    /\ events' = events + 1
    /\ conn' = conn + 1
    /\ sock_open' = TRUE
    /\ peer' = "open"
    /\ units' = << >>
    /\ rpos' = 0
    /\ spc' = "assign"
    /\ push_log' = << >>
    /\ push_start' = 0
    /\ rej' = NoRej
    /\ hdr_start' = 0
    /\ ts_log' = << >>
    /\ win0' = NoWindow
    /\ call_start' = 0
    /\ nchunks' = 0
    /\ UNCHANGED << srvFields, queueVars, listening, loopLocals, guiLocals, sent,
                    now, npush, push_old, taken_id, callHist, put_dropped, exitHist >>
    /\ UNCHANGED << threads, stop_raised, stop_done, serving, cmd_dropped, poll_raised, poll_result, display, shown_active, get_missed, pushed, taken, after_stop >>

\* server_socket.accept() returns a new producer connection.
Accept ==
    /\ spc = "accept"
    /\ events < MaxEvents
    /\ events' = events + 1
    /\ conn' = conn + 1
    /\ sock_open' = TRUE
    /\ peer' = "open"
    /\ units' = << >>
    /\ rpos' = 0
    /\ spc' = "assign"
    /\ push_log' = << >>
    /\ push_start' = 0
    /\ rej' = NoRej
    /\ hdr_start' = 0
    /\ ts_log' = << >>
    /\ win0' = NoWindow
    /\ call_start' = 0
    /\ nchunks' = 0
    /\ UNCHANGED << srvFields, queueVars, listening, loopLocals, guiLocals, sent,
                    now, npush, push_old, taken_id, callHist, put_dropped, exitHist >>
    /\ UNCHANGED << threads, stop_raised, stop_done, serving, cmd_dropped, poll_raised, poll_result, display, shown_active, get_missed, pushed, taken, after_stop >>

\* server_socket.accept() times out after 1.0 s: `except socket.timeout: continue`
AcceptTimeout ==
    /\ spc = "accept"
    /\ spc' = "loop"
    /\ UNCHANGED << events, srvFields, queueVars, listening, loopLocals, guiLocals, sockVars,
                    sent, now, pushHist, taken_id, frameHist, callHist, put_dropped,
                    exitHist >>
    /\ UNCHANGED << threads, stop_raised, stop_done, serving, cmd_dropped, poll_raised, poll_result, display, shown_active, ts_log, win0, call_start, nchunks, get_missed, pushed, taken, after_stop >>

\* self._client_socket = client_socket
AssignClientSocket ==
    /\ spc = "assign"
    /\ client_socket' = conn
    /\ spc' = "setup"
    /\ UNCHANGED << events, should_run, client_output_stream, queueVars, listening, loopLocals,
                    guiLocals, sockVars, sent, now, pushHist, taken_id, frameHist,
                    callHist, put_dropped, exitHist >>
    /\ UNCHANGED << threads, stop_raised, stop_done, serving, cmd_dropped, poll_raised, poll_result, display, shown_active, ts_log, win0, call_start, nchunks, get_missed, pushed, taken, after_stop >>

\* _handle_client up to its loop: setsockopt, settimeout, publish the handle,
\* frame_count = 0, window_start = time.time().  On a socket that stop() has
\* already closed setsockopt raises OSError, which leaves _handle_client and is
\* caught by _run_server's `except OSError: break`.
HandleClientSetup ==
    /\ spc = "setup"
    /\ IF sock_open
       THEN /\ client_output_stream' = conn
            /\ serving' = serving \cup {conn}
            /\ win0' = [start |-> now, fps |-> stats.fps]
            /\ frame_count' = 0
            /\ window_start' = now
            /\ spc' = "hloop"
            /\ UNCHANGED << listening, exitHist, threads >>
       ELSE /\ spc' = "exited"
            /\ listening' = FALSE
            /\ end_reason' = "oserror"
            /\ exit_reason' = "oserror"
            /\ threads' = threads - 1
            /\ UNCHANGED << client_output_stream, frame_count, window_start, bind_error,
                            serving, win0 >>
    /\ UNCHANGED << events, should_run, client_socket, queueVars, data, need, timestamp,
                    guiLocals, sockVars, sent, now, pushHist, taken_id, frameHist,
                    callHist, put_dropped >>
    /\ UNCHANGED << stop_raised, stop_done, cmd_dropped, poll_raised, poll_result, display, shown_active, ts_log, call_start, nchunks, get_missed, pushed, taken, after_stop >>

\* `while self._should_run.is_set():` of _handle_client, then the call
\* self._recvall(client_socket, 4)
ReceiveLoopCheck ==
    /\ spc = "hloop"
    /\ IF LoopCondition
       THEN /\ spc' = "header"
            /\ need' = HEADER_SIZE
            /\ data' = << >>
            /\ hdr_start' = rpos
            /\ call_start' = rpos
            /\ nchunks' = 0
            /\ UNCHANGED end_reason
       ELSE /\ spc' = "hexit"
            /\ end_reason' = "flag"
            /\ UNCHANGED << need, data, hdr_start, call_start, nchunks >>
    /\ UNCHANGED << events, srvFields, queueVars, listening, timestamp, frame_count, window_start,
                    guiLocals, sockVars, sent, now, pushHist, taken_id, rej, callHist,
                    put_dropped, bind_error, exit_reason >>
    /\ UNCHANGED << threads, stop_raised, stop_done, serving, cmd_dropped, poll_raised, poll_result, display, shown_active, ts_log, win0, get_missed, pushed, taken, after_stop >>

\* One client_socket.recv(length - len(data)) of _recvall that returns n bytes,
\* and, when that completes the read, what _handle_client does with the
\* result up to its next access to shared state:
\*   header : unpack, range check, `continue` or start reading the payload
\*   payload: now = time.time() and the call of _push_frame
Recv(n) ==
    /\ spc \in {"header", "payload"}
    /\ sock_open
    /\ peer # "reset"
    /\ n \in 1 .. Min(need - Len(data), Len(Wire))
    /\ LET d == data \o SubSeq(Wire, 1, n)
           fl == UnpackHeader(d)
       IN  /\ rpos' = rpos + n
           /\ IF Len(d) < need
              THEN /\ data' = d
                   /\ nchunks' = nchunks + 1
                   /\ UNCHANGED << spc, need, timestamp, rej, pushHist, poll_result, ts_log,
                                   call_start, get_missed, pushed >>
              ELSE IF spc = "header"
              THEN IF ValidLength(fl)
                   THEN /\ spc' = "payload"
                        /\ need' = fl
                        /\ data' = << >>
                        /\ call_start' = rpos + n
                        /\ nchunks' = 0
                        /\ UNCHANGED << timestamp, rej, pushHist, poll_result, ts_log,
                                        get_missed, pushed >>
                   ELSE /\ spc' = "hloop"
                        /\ data' = d
                        /\ rej' = [at |-> rpos + n, len |-> fl]
                        /\ nchunks' = nchunks + 1
                        /\ UNCHANGED << need, timestamp, pushHist, poll_result, ts_log,
                                        call_start, get_missed, pushed >>
              ELSE /\ spc' = "push_full"
                   /\ data' = d
                   /\ timestamp' = now
                   /\ npush' = npush + 1
                   /\ push_log' = Append(push_log, d)
                   /\ push_start' = rpos + n - Len(d)
                   /\ push_old' = IF frame_queue = << >> THEN 0 ELSE Head(frame_queue).id
                   /\ poll_result' = "none"
                   /\ ts_log' = Append(ts_log, now)
                   /\ nchunks' = nchunks + 1
                   /\ get_missed' = FALSE
                   /\ pushed' = Append(pushed, d)
                   /\ UNCHANGED << need, rej, call_start >>
    /\ UNCHANGED << events, srvFields, queueVars, listening, frame_count, window_start, guiLocals,
                    conn, sock_open, peer, units, sent, now, taken_id,
                    hdr_start, callHist, put_dropped, exitHist >>
    /\ UNCHANGED << threads, stop_raised, stop_done, serving, cmd_dropped, poll_raised, display, shown_active, win0, taken, after_stop >>

RecvFailsPropagates(reason) ==
    /\ spc \in {"header", "payload"}
    /\ spc' = "exited"
    /\ listening' = FALSE
    /\ end_reason' = reason
    /\ exit_reason' = "oserror"
    /\ threads' = threads - 1
    /\ UNCHANGED << events, srvFields, queueVars, loopLocals, guiLocals, sockVars,
                    sent, now, pushHist, taken_id, frameHist, callHist, put_dropped,
                    bind_error >>
    /\ UNCHANGED << stop_raised, stop_done, serving, cmd_dropped, poll_raised, poll_result, display, shown_active, ts_log, win0, call_start, nchunks, get_missed, pushed, taken, after_stop >>

\* A recv that does not return data ends the receive loop with `break`
\* whatever the failure is.
RecvFails(reason) ==
    /\ spc \in {"header", "payload"}
    /\ spc' = "hexit"
    /\ end_reason' = reason
    /\ UNCHANGED << events, srvFields, queueVars, listening, loopLocals, guiLocals, sockVars,
                    sent, now, pushHist, taken_id, frameHist, callHist, put_dropped,
                    bind_error, exit_reason >>
    /\ UNCHANGED << threads, stop_raised, stop_done, serving, cmd_dropped, poll_raised, poll_result, display, shown_active, ts_log, win0, call_start, nchunks, get_missed, pushed, taken, after_stop >>

\* socket.timeout after 5.0 s of silence: _recvall returns None
RecvTimeout == sock_open /\ peer = "open" /\ Wire = << >> /\ RecvFails("timeout")

\* recv returns b'' at end of stream: _recvall returns None
RecvEof == sock_open /\ peer = "closed" /\ Wire = << >> /\ RecvFails("eof")

\* ConnectionResetError: `except (socket.timeout, ConnectionError, struct.error)`
RecvReset == sock_open /\ peer = "reset" /\ RecvFails("reset")

\* the socket was shut down and closed by stop(): recv returns b'' or raises
\* OSError (`except OSError: break`)
RecvClosed == ~sock_open /\ RecvFails("closed")

\* _push_frame: `if self.frame_queue.full():`
PushFull ==
    /\ spc = "push_full"
    /\ spc' = IF QueueFull(frame_queue) THEN "push_get" ELSE "push_put"
    /\ UNCHANGED << events, srvFields, queueVars, listening, loopLocals, guiLocals, sockVars,
                    sent, now, pushHist, taken_id, frameHist, callHist, put_dropped,
                    exitHist >>
    /\ UNCHANGED << threads, stop_raised, stop_done, serving, cmd_dropped, poll_raised, poll_result, display, shown_active, ts_log, win0, call_start, nchunks, get_missed, pushed, taken, after_stop >>

\* _push_frame: `self.frame_queue.get_nowait()` / `except queue.Empty: pass`
PushGet ==
    /\ spc = "push_get"
    /\ frame_queue' = GetNowaitOrPass(frame_queue)
    /\ get_missed' = (frame_queue = << >>)
    /\ spc' = "push_put"
    /\ UNCHANGED << events, srvFields, stats, listening, loopLocals, guiLocals, sockVars,
                    sent, now, pushHist, taken_id, frameHist, callHist, put_dropped,
                    exitHist >>
    /\ UNCHANGED << threads, stop_raised, stop_done, serving, cmd_dropped, poll_raised, poll_result, display, shown_active, ts_log, win0, call_start, nchunks, pushed, taken, after_stop >>

\* _push_frame: `self.frame_queue.put_nowait((frame_data, timestamp))`
PushPut ==
    /\ spc = "push_put"
    /\ frame_queue' = PutNowaitOrPass(frame_queue,
                                      [data |-> data, ts |-> timestamp, id |-> npush])
    /\ put_dropped' = (put_dropped \/ QueueFull(frame_queue))
    /\ after_stop' = IF after_stop >= 0 THEN after_stop + 1 ELSE after_stop
    /\ spc' = "push_ts"
    /\ UNCHANGED << events, srvFields, stats, listening, loopLocals, guiLocals, sockVars,
                    sent, now, pushHist, taken_id, frameHist, callHist, exitHist >>
    /\ UNCHANGED << threads, stop_raised, stop_done, serving, cmd_dropped, poll_raised, poll_result, display, shown_active, ts_log, win0, call_start, nchunks, get_missed, pushed, taken >>

\* _push_frame: `self.stats.last_updated = timestamp`, and the return
PushTs ==
    /\ spc = "push_ts"
    /\ stats' = [stats EXCEPT !.last_updated = timestamp]
    /\ spc' = "stats"
    /\ UNCHANGED << events, srvFields, frame_queue, listening, loopLocals, guiLocals, sockVars,
                    sent, now, pushHist, taken_id, frameHist, callHist, put_dropped,
                    exitHist >>
    /\ UNCHANGED << threads, stop_raised, stop_done, serving, cmd_dropped, poll_raised, poll_result, display, shown_active, ts_log, win0, call_start, nchunks, get_missed, pushed, taken, after_stop >>

\* an fps window that leaves out the frame that closes it
UpdateStatsCountsBefore ==
    /\ spc = "stats"
    /\ LET elapsed == timestamp - window_start
       IN  IF elapsed >= 1
           THEN /\ stats' = [stats EXCEPT !.fps = << frame_count, elapsed >>]
                /\ frame_count' = 0
                /\ window_start' = timestamp
           ELSE /\ frame_count' = frame_count + 1
                /\ UNCHANGED << stats, window_start >>
    /\ spc' = "hloop"
    /\ UNCHANGED << events, srvFields, frame_queue, listening, data, need, timestamp, guiLocals,
                    sockVars, sent, now, pushHist, taken_id, frameHist, callHist,
                    put_dropped, exitHist >>
    /\ UNCHANGED << threads, stop_raised, stop_done, serving, cmd_dropped, poll_raised, poll_result, display, shown_active, ts_log, win0, call_start, nchunks, get_missed, pushed, taken, after_stop >>

\* frame_count += 1 and the fps window of _handle_client
UpdateStats ==
    /\ spc = "stats"
    /\ LET elapsed == timestamp - window_start
       IN  IF elapsed >= 1
           THEN /\ stats' = [stats EXCEPT !.fps = << frame_count + 1, elapsed >>]
                /\ frame_count' = 0
                /\ window_start' = timestamp
           ELSE /\ frame_count' = frame_count + 1
                /\ UNCHANGED << stats, window_start >>
    /\ spc' = "hloop"
    /\ UNCHANGED << events, srvFields, frame_queue, listening, data, need, timestamp, guiLocals,
                    sockVars, sent, now, pushHist, taken_id, frameHist, callHist,
                    put_dropped, exitHist >>
    /\ UNCHANGED << threads, stop_raised, stop_done, serving, cmd_dropped, poll_raised, poll_result, display, shown_active, ts_log, win0, call_start, nchunks, get_missed, pushed, taken, after_stop >>

\* a _handle_client that returns without resetting the handle
HandleClientExitKeepsHandle ==
    /\ spc = "hexit"
    /\ sock_open' = FALSE
    /\ serving' = serving \ {conn}
    /\ spc' = "loop"
    /\ UNCHANGED << events, srvFields, queueVars, listening, loopLocals,
                    guiLocals, conn, peer, units, rpos, sent, now, pushHist,
                    taken_id, frameHist, callHist, put_dropped, exitHist >>
    /\ UNCHANGED << threads, stop_raised, stop_done, cmd_dropped, poll_raised, poll_result, display, shown_active, ts_log, win0, call_start, nchunks, get_missed, pushed, taken, after_stop >>

\* after the loop: self._client_output_stream = None, and the `with
\* client_socket` block closes the socket; back in _run_server's loop
HandleClientExit ==
    /\ spc = "hexit"
    /\ client_output_stream' = None
    /\ sock_open' = FALSE
    /\ serving' = serving \ {conn}
    /\ spc' = "loop"
    /\ UNCHANGED << events, should_run, client_socket, queueVars, listening, loopLocals,
                    guiLocals, conn, peer, units, rpos, sent, now, pushHist,
                    taken_id, frameHist, callHist, put_dropped, exitHist >>
    /\ UNCHANGED << threads, stop_raised, stop_done, cmd_dropped, poll_raised, poll_result, display, shown_active, ts_log, win0, call_start, nchunks, get_missed, pushed, taken, after_stop >>

ServerStep ==
    \/ RunServerBind \/ AcceptLoopCheck \/ Accept \/ AcceptTimeout
    \/ AssignClientSocket \/ HandleClientSetup \/ ReceiveLoopCheck
    \/ (\E n \in 1 .. Len(Wire) : Recv(n))
    \/ RecvTimeout \/ RecvEof \/ RecvReset \/ RecvClosed
    \/ PushFull \/ PushGet \/ PushPut \/ PushTs \/ UpdateStats \/ HandleClientExit


\* ---------------------------------------------------------- the GUI thread
\* VideoServer.start()
Start ==
    /\ gpc = "idle"
    /\ IF ThreadAlive
       THEN UNCHANGED << should_run, spc, exitHist, threads >>
       ELSE /\ should_run' = TRUE
            /\ spc' = "bind"
            /\ threads' = threads + 1
            /\ bind_error' = FALSE
            /\ end_reason' = "none"
            /\ exit_reason' = "none"
    /\ started' = TRUE
    /\ start_raised' = FALSE
    /\ after_stop' = 0 - 1
    /\ UNCHANGED << events, client_socket, client_output_stream, queueVars, listening,
                    loopLocals, guiLocals, sockVars, sent, now, pushHist, taken_id,
                    frameHist, send_raised, put_dropped >>
    /\ UNCHANGED << stop_raised, stop_done, serving, cmd_dropped, poll_raised, poll_result, display, shown_active, ts_log, win0, call_start, nchunks, get_missed, pushed, taken >>

\* VideoServer.stop(): self._should_run.clear()
StopClear ==
    /\ gpc = "idle"
    /\ events < MaxEvents
    /\ events' = events + 1
    /\ should_run' = FALSE
    /\ started' = FALSE
    /\ gpc' = "stop_test"
    /\ UNCHANGED << client_socket, client_output_stream, queueVars, spc, listening,
                    loopLocals, command, sockVars, sent, now, pushHist, taken_id,
                    frameHist, start_raised, send_raised, put_dropped, exitHist >>
    /\ UNCHANGED << threads, stop_raised, stop_done, serving, cmd_dropped, poll_raised, poll_result, display, shown_active, ts_log, win0, call_start, nchunks, get_missed, pushed, taken, after_stop >>

\* VideoServer.stop(): `if self._client_socket:`
StopTest ==
    /\ gpc = "stop_test"
    /\ IF client_socket # None
       THEN /\ gpc' = "stop_close"
            /\ UNCHANGED << stop_done, after_stop >>
       ELSE /\ gpc' = "idle"
            /\ stop_done' = IF stop_done < 2 THEN stop_done + 1 ELSE 2
            /\ after_stop' = IF after_stop >= 0 THEN after_stop ELSE 0
    /\ UNCHANGED << events, srvFields, queueVars, spc, listening, loopLocals, command, sockVars,
                    sent, now, pushHist, taken_id, frameHist, started, start_raised, send_raised,
                    put_dropped, exitHist >>
    /\ UNCHANGED << threads, stop_raised, serving, cmd_dropped, poll_raised, poll_result, display, shown_active, ts_log, win0, call_start, nchunks, get_missed, pushed, taken >>

StopCatchesNothing(e) == FALSE
\* `except OSError: pass` around shutdown() and around close()
StopCatches(e) == e = "OSError"

\* a stop() that leaves the client socket open
StopCloseKeepsOpen ==
    /\ gpc = "stop_close"
    /\ gpc' = "stop_none"
    /\ UNCHANGED << events, srvFields, queueVars, spc, listening, loopLocals, command, conn,
                    peer, units, rpos, sent, now, pushHist, taken_id, frameHist,
                    callHist, put_dropped, exitHist, sock_open, stop_raised, stop_done,
                    after_stop >>
    /\ UNCHANGED << threads, serving, cmd_dropped, poll_raised, poll_result, display, shown_active, ts_log, win0, call_start, nchunks, get_missed, pushed, taken >>

\* VideoServer.stop(): shutdown(SHUT_RDWR) and close() of self._client_socket,
\* each in its own try.  The handle is read again; it may be that of a socket
\* that _handle_client has already closed, on which shutdown raises OSError.
StopClose ==
    /\ gpc = "stop_close"
    /\ LET h   == client_socket
           exc == IF h = None THEN "AttributeError"
                  ELSE IF h # conn \/ ~sock_open THEN "OSError"
                  ELSE "none"
       IN  IF exc = "none" \/ StopCatches(exc)
           THEN /\ sock_open' = IF h = conn THEN FALSE ELSE sock_open
                /\ gpc' = "stop_none"
                /\ UNCHANGED << stop_raised, stop_done, after_stop >>
           ELSE /\ gpc' = "idle"
                /\ stop_raised' = TRUE
                /\ stop_done' = IF stop_done < 2 THEN stop_done + 1 ELSE 2
                /\ after_stop' = IF after_stop >= 0 THEN after_stop ELSE 0
                /\ UNCHANGED sock_open
    /\ UNCHANGED << events, srvFields, queueVars, spc, listening, loopLocals, command, conn,
                    peer, units, rpos, sent, now, pushHist, taken_id, frameHist,
                    callHist, put_dropped, exitHist >>
    /\ UNCHANGED << threads, serving, cmd_dropped, poll_raised, poll_result, display, shown_active, ts_log, win0, call_start, nchunks, get_missed, pushed, taken >>

\* VideoServer.stop(): self._client_socket = None, and the return
StopNone ==
    /\ gpc = "stop_none"
    /\ client_socket' = None
    /\ gpc' = "idle"
    /\ stop_done' = IF stop_done < 2 THEN stop_done + 1 ELSE 2
    /\ after_stop' = IF after_stop >= 0 THEN after_stop ELSE 0
    /\ UNCHANGED << events, should_run, client_output_stream, queueVars, spc, listening,
                    loopLocals, command, sockVars, sent, now, pushHist, taken_id,
                    frameHist, started, start_raised, send_raised, put_dropped, exitHist >>
    /\ UNCHANGED << threads, stop_raised, serving, cmd_dropped, poll_raised, poll_result, display, shown_active, ts_log, win0, call_start, nchunks, get_missed, pushed, taken >>

\* a send_control_command without the test of the handle
SendCheckNoTest(cmd) ==
    /\ gpc = "idle"
    /\ events < MaxEvents
    /\ events' = events + 1
    /\ gpc' = "send_write"
    /\ command' = cmd
    /\ send_raised' = FALSE
    /\ UNCHANGED << srvFields, queueVars, spc, listening, loopLocals, sockVars, sent,
                    now, pushHist, taken_id, frameHist, started, start_raised, put_dropped,
                    exitHist >>
    /\ UNCHANGED << threads, stop_raised, stop_done, serving, cmd_dropped, poll_raised, poll_result, display, shown_active, ts_log, win0, call_start, nchunks, get_missed, pushed, taken, after_stop >>

\* send_control_command: `if self._client_output_stream:`
SendCheck(cmd) ==
    /\ gpc = "idle"
    /\ events < MaxEvents
    /\ events' = events + 1
    /\ IF client_output_stream # None
       THEN /\ gpc' = "send_write"
            /\ command' = cmd
            /\ UNCHANGED cmd_dropped
       ELSE /\ cmd_dropped' = TRUE
            /\ UNCHANGED guiLocals
    /\ send_raised' = FALSE
    /\ UNCHANGED << srvFields, queueVars, spc, listening, loopLocals, sockVars, sent,
                    now, pushHist, taken_id, frameHist, started, start_raised, put_dropped,
                    exitHist >>
    /\ UNCHANGED << threads, stop_raised, stop_done, serving, poll_raised, poll_result, display, shown_active, ts_log, win0, call_start, nchunks, get_missed, pushed, taken, after_stop >>

\* send_control_command: self._client_output_stream.sendall(...) inside
\* try / except Exception.  The handle is read again: it may have become None
\* (AttributeError); sendall fails with OSError on a closed socket and may
\* fail on one whose peer has gone.
SendWrite ==
    /\ gpc = "send_write"
    /\ \E fails \in BOOLEAN :
         LET h   == client_output_stream
             exc == IF h = None THEN "AttributeError"
                    ELSE IF h # conn \/ ~sock_open THEN "OSError"
                    ELSE IF peer # "open" /\ fails THEN "OSError"
                    ELSE "none"
         IN  IF exc = "none"
             THEN /\ sent' = Append(sent, [sock |-> h, bytes |-> CommandBytes(command),
                                           ok |-> TRUE])
                  /\ send_raised' = FALSE
             ELSE /\ sent' = Append(sent, [sock |-> h, bytes |-> << >>, ok |-> FALSE])
                  /\ send_raised' = ~ExceptionCaught(exc)
    /\ gpc' = "idle"
    /\ command' = << >>
    /\ UNCHANGED << events, srvFields, queueVars, spc, listening, loopLocals, sockVars, now,
                    pushHist, taken_id, frameHist, started, start_raised, put_dropped, exitHist >>
    /\ UNCHANGED << threads, stop_raised, stop_done, serving, cmd_dropped, poll_raised, poll_result, display, shown_active, ts_log, win0, call_start, nchunks, get_missed, pushed, taken, after_stop >>

PollCatchesNothing(e) == FALSE
\* `except queue.Empty: pass` of _poll_frames
PollCatches(e) == e = "queue.Empty"

\* a poll that reads the slot's frame and leaves it in the queue
PollFramesPeek ==
    /\ gpc = "idle"
    /\ IF frame_queue = << >>
       THEN /\ poll_result' = "empty"
            /\ UNCHANGED << taken_id, taken >>
       ELSE /\ taken_id' = Head(frame_queue).id
            /\ taken' = Append(taken, [id |-> Head(frame_queue).id,
                                       data |-> Head(frame_queue).data])
            /\ poll_result' = "frame"
    /\ UNCHANGED << events, srvFields, spc, listening, loopLocals, guiLocals, sockVars, sent,
                    now, pushHist, frameHist, callHist, put_dropped, exitHist,
                    frame_queue, stats, poll_raised >>
    /\ UNCHANGED << threads, stop_raised, stop_done, serving, cmd_dropped, display, shown_active, ts_log, win0, call_start, nchunks, get_missed, pushed, after_stop >>

\* ViewerApp._poll_frames: get_nowait(), which raises queue.Empty at once on
\* an empty queue, then _display_frame, whose decoding may fail (`except
\* Exception: return`) before latency_ms is written
PollFrames ==
    /\ gpc = "idle"
    /\ IF frame_queue = << >>
       THEN /\ poll_result' = "empty"
            /\ poll_raised' = (poll_raised \/ ~PollCatches("queue.Empty"))
            /\ UNCHANGED << frame_queue, stats, taken_id, taken >>
       ELSE /\ frame_queue' = Tail(frame_queue)
            /\ taken_id' = Head(frame_queue).id
            /\ taken' = Append(taken, [id |-> Head(frame_queue).id,
                                       data |-> Head(frame_queue).data])
            /\ poll_result' = "frame"
            /\ UNCHANGED poll_raised
            /\ \E decoded \in BOOLEAN :
                 stats' = IF decoded
                          THEN [stats EXCEPT !.latency_ms =
                                   IF now - Head(frame_queue).ts > 0
                                   THEN (now - Head(frame_queue).ts) * 1000 ELSE 0]
                          ELSE stats
    /\ UNCHANGED << events, srvFields, spc, listening, loopLocals, guiLocals, sockVars, sent,
                    now, pushHist, frameHist, callHist, put_dropped, exitHist >>
    /\ UNCHANGED << threads, stop_raised, stop_done, serving, cmd_dropped, display, shown_active, ts_log, win0, call_start, nchunks, get_missed, pushed, after_stop >>

\* a refresh that reports the stream active whenever a frame rate is known
RefreshStatsNoStaleTest ==
    /\ gpc = "idle"
    /\ display' = IF stats.fps[1] > 0
                  THEN [status |-> "active", fps |-> stats.fps,
                        latency |-> stats.latency_ms]
                  ELSE [status |-> "idle", fps |-> IdleFps, latency |-> IdleLatency]
    /\ shown_active' = (shown_active \/ display'.status = "active")
    /\ UNCHANGED << events, srvFields, queueVars, spc, listening, loopLocals, guiLocals,
                    sockVars, sent, now, pushHist, taken_id, frameHist, callHist,
                    put_dropped, exitHist >>
    /\ UNCHANGED << threads, stop_raised, stop_done, serving, cmd_dropped, poll_raised, poll_result, ts_log, win0, call_start, nchunks, get_missed, pushed, taken, after_stop >>

\* ViewerApp._refresh_stats
RefreshStats ==
    /\ gpc = "idle"
    /\ LET elapsed == now - stats.last_updated
       IN  display' = IF elapsed < STALE_AFTER /\ stats.fps[1] > 0
                      THEN [status |-> "active", fps |-> stats.fps,
                            latency |-> stats.latency_ms]
                      ELSE [status |-> "idle", fps |-> IdleFps, latency |-> IdleLatency]
    /\ shown_active' = (shown_active \/ display'.status = "active")
    /\ UNCHANGED << events, srvFields, queueVars, spc, listening, loopLocals, guiLocals,
                    sockVars, sent, now, pushHist, taken_id, frameHist, callHist,
                    put_dropped, exitHist >>
    /\ UNCHANGED << threads, stop_raised, stop_done, serving, cmd_dropped, poll_raised, poll_result, ts_log, win0, call_start, nchunks, get_missed, pushed, taken, after_stop >>

GuiStep ==
    \/ Start \/ StopClear \/ StopTest \/ StopClose \/ StopNone
    \/ (\E cmd \in Commands : SendCheck(cmd)) \/ SendWrite \/ PollFrames
    \/ RefreshStats

\* ------------------------------------------------------------ environment
\* The producer writes one more protocol unit; after a truncated unit it
\* writes nothing more.
ProducerSend(u) ==
    /\ sock_open
    /\ peer = "open"
    /\ events < MaxEvents
    /\ events' = events + 1
    /\ (IF units = << >> THEN TRUE ELSE units[Len(units)].kind # "trunc")
    /\ units' = Append(units, u)
    /\ UNCHANGED << srvFields, queueVars, spc, listening, loopLocals, guiLocals, conn,
                    sock_open, peer, rpos, sent, now, pushHist, taken_id, frameHist,
                    callHist, put_dropped, exitHist >>
    /\ UNCHANGED << threads, stop_raised, stop_done, serving, cmd_dropped, poll_raised, poll_result, display, shown_active, ts_log, win0, call_start, nchunks, get_missed, pushed, taken, after_stop >>

\* The producer closes its end (FIN) or the connection is reset (RST).
ProducerGone(how) ==
    /\ sock_open
    /\ peer = "open"
    /\ peer' = how
    /\ UNCHANGED << events, srvFields, queueVars, spc, listening, loopLocals, guiLocals, conn,
                    sock_open, units, rpos, sent, now, pushHist, taken_id,
                    frameHist, callHist, put_dropped, exitHist >>
    /\ UNCHANGED << threads, stop_raised, stop_done, serving, cmd_dropped, poll_raised, poll_result, display, shown_active, ts_log, win0, call_start, nchunks, get_missed, pushed, taken, after_stop >>

ProducerClose == ProducerGone("closed")
ProducerReset == ProducerGone("reset")

\* One second passes.  The timeouts are steps of their own (AcceptTimeout,
\* RecvTimeout); the clock is read only for timestamps and statistics.
Tick ==
    /\ events < MaxEvents
    /\ events' = events + 1
    /\ now' = now + 1
    /\ UNCHANGED << srvFields, queueVars, spc, listening, loopLocals, guiLocals,
                    sockVars, sent, pushHist, taken_id, frameHist, callHist,
                    put_dropped, exitHist >>
    /\ UNCHANGED << threads, stop_raised, stop_done, serving, cmd_dropped, poll_raised, poll_result, display, shown_active, ts_log, win0, call_start, nchunks, get_missed, pushed, taken, after_stop >>

\* One second passes, free of the event budget.
Clock ==
    /\ now < MaxTime
    /\ now' = now + 1
    /\ UNCHANGED << events, srvFields, queueVars, spc, listening, loopLocals, guiLocals,
                    sockVars, sent, pushHist, taken_id, frameHist, callHist,
                    put_dropped, exitHist >>
    /\ UNCHANGED << threads, stop_raised, stop_done, serving, cmd_dropped, poll_raised, poll_result, display, shown_active, ts_log, win0, call_start, nchunks, get_missed, pushed, taken, after_stop >>

ProducerStep ==
    \/ (\E u \in Units : ProducerSend(u)) \/ ProducerClose \/ ProducerReset

EnvStep == ProducerStep \/ Tick

Next == ServerStep \/ GuiStep \/ EnvStep

Spec == Init /\ [][Next]_vars

\* The same program with the clock running free of the event budget, for what
\* depends on how much time passes between frames.
TimedNext == ServerStep \/ GuiStep \/ ProducerStep \/ Clock

TimedSpec == Init /\ [][TimedNext]_vars

\* The server thread is a running thread whose blocking calls all have
\* timeouts (accept 1.0 s, recv 5.0 s): it always takes its next step.
FairSpec == Spec /\ WF_vars(ServerStep)


\* ------------------------------------------------------------------ claims
ReadFailures == {"timeout", "eof", "reset"}
InReceiveLoop == spc \in {"hloop", "header", "payload", "push_full", "push_get",
                          "push_put", "push_ts", "stats"}
PushInProgress == spc \in {"push_full", "push_get", "push_put"}

\* The payloads of the frames that lie wholly within the first n bytes of a
\* stream of units, as the wire protocol frames them; a zero-length header is
\* a unit of its own without payload.
RECURSIVE FramesWithin(_, _)
FramesWithin(us, n) ==
    IF us = << >> THEN << >>
    ELSE LET u == Head(us)
         IN  IF Len(u.bytes) > n \/ u.kind \notin {"frame", "zero"} THEN << >>
             ELSE (IF u.kind = "frame"
                   THEN << SubSeq(u.bytes, HEADER_SIZE + 1, Len(u.bytes)) >>
                   ELSE << >>) \o FramesWithin(Tail(us), n - Len(u.bytes))

NoOversized == \A i \in 1 .. Len(units) : units[i].kind # "over"

C2_DropOldest ==
    (push_old # 0 /\ ~PushInProgress) =>
        \A i \in 1 .. Len(frame_queue) : frame_queue[i].id = npush

C2_Witness ==
    /\ spc = "stats"
    /\ push_old # 0
    /\ taken_id # push_old
    /\ Len(frame_queue) = 1
    /\ frame_queue[1].id = npush

\* C2 as stated: after the push returns the queue contains exactly the newer
\* frame, and the older frame was discarded, not handed to the consumer.
C2_AsStated ==
    (spc = "stats" /\ push_old # 0) =>
        /\ Len(frame_queue) = 1
        /\ frame_queue[1].id = npush
        /\ taken_id # push_old

\* C3: the hand-off queue never holds more than one (frame, timestamp) pair.
C3_AtMostOnePair == Len(frame_queue) <= 1

C3_Witness ==
    /\ spc = "push_ts"
    /\ push_old # 0
    /\ Len(frame_queue) = 1

\* C4: after a header with an out-of-range length either the connection is
\* closed, or exactly the declared number of bytes is read and discarded
\* before the next header is read; no frame is pushed out of that unit.
C4_RejectPolicy ==
    rej # NoRej =>
        /\ rpos > rej.at => (hdr_start < rej.at \/ hdr_start >= rej.at + rej.len)
        /\ ~(push_log # << >> /\ push_start >= rej.at /\ push_start < rej.at + rej.len)

\* C5: once the run flag is cleared the accept loop and any receive loop end
\* and the listening socket is closed.
C5_StopTerminates ==
    (~should_run /\ ThreadAlive) ~> (spc = "exited" /\ ~listening)

C5_Witness ==
    /\ spc = "exited"
    /\ exit_reason = "flag"
    /\ end_reason = "closed"
    /\ ~listening

\* C6: when start() has returned (and stop() was not called since) the run
\* flag is set.
C6_StartRestarts == started => should_run

C8_SendFailureContained ==
    /\ [](~send_raised)
    /\ [][(gpc = "send_write" /\ gpc' = "idle") =>
            UNCHANGED << spc, srvFields, loopLocals, sockVars, queueVars, listening,
                         end_reason, exit_reason >>]_vars

C8_Witness ==
    /\ sent # << >>
    /\ sent[Len(sent)].sock = None
    /\ ~sent[Len(sent)].ok

\* C9: a read failure (timeout, EOF, reset) ends only the connection: nothing
\* of the partial unit is pushed, the handle is withdrawn, and the accept loop
\* goes on (it ends only when the run flag is cleared), back to accept.
C9_ReadFailureEndsConnection ==
    /\ [](end_reason \in ReadFailures =>
            /\ spc = "exited" => exit_reason = "flag"
            /\ spc \in {"hexit", "loop", "accept"} =>
                 (NoOversized => push_log = FramesWithin(units, rpos))
            /\ spc \in {"loop", "accept"} => client_output_stream = None)
    /\ ((spc = "hexit" /\ end_reason \in ReadFailures) ~> (spc = "accept" \/ ~should_run))

C9_Witness ==
    /\ conn = 2
    /\ end_reason \in ReadFailures
    /\ spc = "stats"
    /\ push_log # << >>

\* C10: a bind/listen failure makes start() raise.
C10_BindFailureSurfaced == bind_error => start_raised

\* C11: start() while the accept loop is running changes nothing (it neither
\* sets the flag again nor spawns), so at most one thread running _run_server
\* exists at any time.
C11_StartIdempotent ==
    /\ [](threads <= 1)
    /\ [][(Start /\ threads >= 1) =>
            UNCHANGED << srvFields, queueVars, spc, listening, loopLocals, guiLocals,
                         sockVars, sent, threads >>]_vars

\* a start() issued after stop(), while the old thread was still in accept, has
\* returned: it left the flag cleared and spawned nothing
C11_Witness ==
    /\ started
    /\ ~should_run
    /\ threads = 1
    /\ spc = "accept"

\* C12: stop() never raises, in whatever state it is called; every stop()
\* returns with the run flag cleared and the client socket handle None; and a
\* stop() on a service already in that state changes nothing.
C12_StopIdempotent ==
    /\ [](~stop_raised)
    /\ [][(gpc \in {"stop_test", "stop_close", "stop_none"} /\ gpc' = "idle") =>
            (~should_run' /\ client_socket' = None)]_vars
    /\ [][((StopClear \/ StopTest) /\ ~should_run /\ client_socket = None) =>
            UNCHANGED << srvFields, queueVars, spc, listening, loopLocals, sockVars,
                         sent, threads >>]_vars

\* a second stop() has returned
C12_Witness ==
    /\ stop_done = 2
    /\ gpc = "idle"
    /\ ~should_run
    /\ client_socket = None

\* C13: at most one connection is being served at any time, it is the most
\* recently accepted one, and accept returns a connection only when no
\* _handle_client is running.
C13_OneConnection ==
    /\ [](/\ Cardinality(serving) <= 1
          /\ serving # {} => (serving = {conn} /\ (InReceiveLoop \/ spc = "hexit")))
    /\ [][conn' # conn => (serving = {} /\ spc = "accept")]_vars

\* a second connection is being served after the first one ended
C13_Witness ==
    /\ conn = 2
    /\ serving = {2}
    /\ spc = "header"

\* C14 (as amended): a command is written only within the call that issued it,
\* and only to the socket of the most recently accepted connection while its
\* _handle_client is still serving it and has not closed it; a call that
\* finds no handle writes nothing and keeps nothing for a later connection.
C14_ActiveSocketOnly ==
    /\ [][sent' # sent =>
            /\ gpc = "send_write"
            /\ sent'[Len(sent')].ok =>
                 /\ sent'[Len(sent')].sock = conn
                 /\ sock_open
                 /\ serving = {conn}]_vars
    /\ [][((\E cmd \in Commands : SendCheck(cmd)) /\ client_output_stream = None) =>
            UNCHANGED << sent, guiLocals >>]_vars
    /\ [](gpc = "idle" => command = << >>)

\* a command was dropped for want of a producer, a producer is now being
\* served, and nothing has been written to it
C14_Witness ==
    /\ cmd_dropped
    /\ serving = {conn}
    /\ spc = "header"
    /\ gpc = "idle"
    /\ sent = << >>

\* C14 as stated: every successful write happens while the receive loop of
\* the socket written to is running.
C14_AsStated ==
    [][(sent' # sent /\ sent'[Len(sent')].ok) => InReceiveLoop]_vars

\* C15: _poll_frames on an empty queue returns at once with no frame: it is
\* never blocked (it can always run to its end in one step when the GUI
\* thread is idle), it never raises, and it changes nothing.
C15_PollEmpty ==
    /\ [](~poll_raised)
    /\ [](gpc = "idle" => ENABLED PollFrames)
    /\ [][(PollFrames /\ frame_queue = << >>) =>
            /\ poll_result' = "empty"
            /\ gpc' = "idle"
            /\ UNCHANGED << frame_queue, stats, taken_id, srvFields, spc >>]_vars

\* the poll found the queue empty between a push's eviction of the slot's
\* occupant and its put
C15_Witness ==
    /\ poll_result = "empty"
    /\ push_old # 0
    /\ taken_id # push_old
    /\ spc = "push_put"

\* C16: a refresh made when no frame was ever received, or when the last frame
\* was received 2 seconds ago or more, reports a status other than "streaming
\* active" and shows the idle fps and latency; a refresh reports "streaming
\* active" only when the last frame was received less than 2 seconds ago and
\* fps > 0.
C16_StaleIsIdle ==
    [][RefreshStats =>
         /\ (npush = 0 \/ now - timestamp >= 2) =>
               /\ display'.status # "active"
               /\ display'.fps = IdleFps
               /\ display'.latency = IdleLatency
         /\ display'.status = "active" =>
               (npush > 0 /\ now - timestamp < 2 /\ stats.fps[1] > 0)]_vars

\* the stream was reported active, the last frame is now 2 seconds old, and
\* a later refresh shows idle
C16_Witness ==
    /\ shown_active
    /\ stats.fps[1] > 0
    /\ now - timestamp >= 2
    /\ display.status = "idle"
    /\ display.fps = IdleFps

\* C17: every write to the statistics (fps, latency_ms, last_updated) is a
\* step of the receive loop.
C17_SingleWriter ==
    [][stats' # stats => (spc \in {"push_ts", "stats"} /\ spc' # spc)]_vars

\* The fps window as the claim words it, replayed over the receive times of a
\* connection's frames: w is [count, start, fps].
RECURSIVE WindowReplay(_, _)
WindowReplay(log, w) ==
    IF log = << >> THEN w
    ELSE LET t == Head(log)
             c == w.count + 1
             e == t - w.start
         IN  WindowReplay(Tail(log),
                          IF e >= 1
                          THEN [count |-> 0, start |-> t, fps |-> << c, e >>]
                          ELSE [count |-> c, start |-> w.start, fps |-> w.fps])

\* C18: within a connection the counter, the window start and fps are what
\* the windowing rule gives over the frames received so far: fps is written
\* only on a frame with elapsed >= 1 second, as (frames in the window,
\* that frame included) / elapsed, with the counter reset to 0 and the window
\* restarted at that frame; on any other frame only the counter moves.
C18_FpsWindow ==
    win0 # NoWindow =>
        LET pending == spc \in {"push_full", "push_get", "push_put", "push_ts", "stats"}
            done == IF pending THEN SubSeq(ts_log, 1, Len(ts_log) - 1) ELSE ts_log
            w == WindowReplay(done, [count |-> 0, start |-> win0.start, fps |-> win0.fps])
        IN  /\ frame_count = w.count
            /\ window_start = w.start
            /\ stats.fps = w.fps

\* a window of exactly 1 second closed by its 2nd frame gave fps = 2 / 1
C18_Witness ==
    /\ ts_log = << win0.start, win0.start + 1 >>
    /\ spc = "hloop"
    /\ stats.fps = << 2, 1 >>
    /\ frame_count = 0
    /\ window_start = win0.start + 1

\* C19: _recvall reads fully or fails.  While it runs it holds exactly the
\* bytes it has consumed, in stream order, fewer than `length` of them; what
\* it returns is exactly `length` bytes, the next `length` bytes of the
\* stream from where the call began, with no byte beyond them consumed; and
\* when it fails (EOF, timeout, reset, closed socket) it holds fewer than
\* `length` bytes and none of them reaches the caller.
C19_ReadFullyOrFail ==
    LET all == Flatten(units)
    IN  /\ spc \in {"header", "payload"} =>
              /\ Len(data) < need
              /\ rpos = call_start + Len(data)
              /\ data = SubSeq(all, call_start + 1, rpos)
        /\ spc \in {"push_full", "push_get", "push_put", "push_ts", "stats"} =>
              /\ Len(data) = need
              /\ rpos = call_start + need
              /\ data = SubSeq(all, call_start + 1, call_start + need)
        /\ spc = "payload" =>
              /\ call_start = hdr_start + HEADER_SIZE
              /\ need = UnpackHeader(SubSeq(all, hdr_start + 1, hdr_start + HEADER_SIZE))
        /\ (spc = "hloop" /\ rej # NoRej /\ rej.at = rpos) =>
              /\ rpos = hdr_start + HEADER_SIZE
              /\ data = SubSeq(all, hdr_start + 1, hdr_start + HEADER_SIZE)
        /\ (spc = "hexit" /\ end_reason \in {"timeout", "eof", "reset", "closed"}) =>
              /\ Len(data) < need
              /\ NoOversized => push_log = FramesWithin(units, call_start)

\* a 2-byte payload was returned after two recv calls of one byte each
C19_Witness ==
    /\ spc = "push_full"
    /\ nchunks = 2
    /\ data = << 8, 9 >>

\* C20: no put_nowait of _push_frame ever hits queue.Full, and from the put
\* of a push until the next push is called the pushed frame is in the queue
\* or is the frame the consumer took last.
C20_PushAlwaysStores ==
    /\ ~put_dropped
    /\ (npush > 0 /\ ~PushInProgress) =>
          \/ \E i \in 1 .. Len(frame_queue) : frame_queue[i].id = npush
          \/ taken_id = npush

\* the consumer drained the slot between full() and get_nowait(): the
\* eviction found the queue empty and the put stored the frame
C20_Witness ==
    /\ spc = "push_ts"
    /\ get_missed
    /\ Len(frame_queue) = 1
    /\ frame_queue[1].id = npush

\* C21: the frames the consumer obtains are a subsequence of the frames
\* pushed: each obtained frame is a pushed frame with its payload unchanged,
\* and the obtained frames follow one another in push order, so none is
\* obtained twice; pushed frames may be missing from them.
C21_TakenSubsequence ==
    /\ \A i \in 1 .. Len(taken) :
          /\ taken[i].id \in 1 .. Len(pushed)
          /\ taken[i].data = pushed[taken[i].id]
    /\ \A i \in 1 .. Len(taken) : \A j \in 1 .. Len(taken) :
          i < j => taken[i].id < taken[j].id

\* two frames were pushed, the first was evicted, and the consumer obtained
\* only the second
C21_Witness ==
    /\ Len(pushed) = 2
    /\ push_old = 1
    /\ taken = << [id |-> 2, data |-> pushed[2]] >>

\* C22: once a stop() has returned, and until a start() is called, no payload
\* read completes and no _push_frame is called, on the current connection or
\* on any later one; at most one put_nowait follows, that of a push called
\* before the stop() returned.
C22_QuietAfterStop ==
    /\ [](after_stop <= 1)
    /\ [][(after_stop >= 0 /\ after_stop' >= 0) =>
            /\ npush' = npush
            /\ pushed' = pushed]_vars

\* one frame, read before stop() returned, was put after it; the receive
\* loop then saw the cleared flag and the thread ended
C22_Witness ==
    /\ after_stop = 1
    /\ spc = "exited"
    /\ exit_reason = "flag"

\* C23 (as amended): the handle is non-None only between its publication by
\* _handle_client and its reset right after the receive loop, and then it is
\* the socket of the connection being served; while the accept loop is
\* between connections, and when it has exited, the handle is None.
C23_HandleOnlyWhileServing ==
    /\ client_output_stream # None =>
          /\ client_output_stream = conn
          /\ serving = {conn}
          /\ InReceiveLoop \/ spc = "hexit"
    /\ spc \in {"none", "bind", "loop", "accept", "assign", "setup", "exited"} =>
          client_output_stream = None

\* listening again after the first connection ended by EOF: the handle is
\* None (while _client_socket still names the closed socket)
C23_Witness ==
    /\ spc = "accept"
    /\ end_reason = "eof"
    /\ conn = 1
    /\ client_socket = 1
    /\ client_output_stream = None

\* C23 as stated: the handle is non-None only while the receive loop is
\* running.
C23_AsStated == client_output_stream # None => InReceiveLoop

\* C24: a header whose length is 0 or above 5 * 1024 * 1024 never starts a
\* payload read.  The step that rejects it leaves the connection open and
\* served, pushes nothing, leaves the queue, the frame counter, the fps
\* window and the statistics as they were, and has consumed the 4 header
\* bytes and nothing more; the loop then either reads the next header from
\* the byte right after them or, the run flag being cleared, ends.
C24_RejectedHeaderSkipped ==
    /\ [][(spc = "header" /\ spc' = "payload") =>
            (need' >= 1 /\ need' <= 5 * 1024 * 1024)]_vars
    /\ [][(rej' # rej /\ rej' # NoRej) =>
            /\ spc = "header" /\ spc' = "hloop"
            /\ rej'.len = 0 \/ rej'.len > 5 * 1024 * 1024
            /\ rej'.at = hdr_start + 4
            /\ rpos' = hdr_start + 4
            /\ UNCHANGED << sock_open, serving, client_output_stream, conn,
                            npush, push_log, pushed, frame_queue, stats,
                            frame_count, window_start >>]_vars
    /\ [][(spc = "hloop" /\ rej # NoRej /\ rpos = rej.at /\ spc' # spc) =>
            \/ spc' = "header" /\ hdr_start' = rej.at /\ call_start' = rej.at
            \/ spc' = "hexit" /\ ~should_run]_vars

\* after a header of 5 * 1024 * 1024 + 1 the next 4 bytes of the stream, the
\* first bytes of what the producer meant as payload, were read as a header
\* of length 1 and the byte after them was pushed as a frame
C24_Witness ==
    /\ rej = [at |-> 4, len |-> OVERSIZED]
    /\ hdr_start = 4
    /\ push_start = 8
    /\ push_log = << << 7 >> >>
    /\ sock_open

====
